---- MODULE Spec2Model ----
(***************************************************************************)
(* Power-rail discovery and reporting of platformstats.c:                  *)
(* print_power_utilization, print_pmbus_info, get_pmbus_device_filename,   *)
(* count_hwmon_reg_devices, and the hwmon enumerator get_device_hwmon_id   *)
(* with read_sysfs_entry, over a sysfs tree given as data.                 *)
(***************************************************************************)
EXTENDS Integers, Sequences, FiniteSets, TLC

\* ------------------------------------------------------------------ bounds
MaxHwmon == 2      \* hwmon indices 0 .. MaxHwmon-1 may be present
MaxDirLen == 2     \* label-like entries listed in an instance directory
TableLen == 2      \* rows of the rail table before the sentinel row
MaxHandles == 3    \* FILE handles the process may hold open

\* errno after a failed fopen/opendir of a missing path
ENOENT == 2

\* ----------------------------------------------------------------- strings
\* File names are sequences of characters: strstr and the in-place
\* replacement of the last five characters act on them.
s_label == <<"l","a","b","e","l">>
s_input == <<"i","n","p","u","t">>
s_ulabel == <<"_">> \o s_label
s_power1 == <<"p","o","w","e","r","1">>
s_power2 == <<"p","o","w","e","r","2">>
power1_label == s_power1 \o s_ulabel
power2_label == s_power2 \o s_ulabel
temp1_input == <<"t","e","m","p","1","_">> \o s_input
s_name == <<"n","a","m","e">>
EmptyStr == << >>
s_u96v2 == <<"u","9","6","v","2">>
s_uz7ev == <<"u","z","7","e","v">>
s_uz3eg == <<"u","z","3","e","g">>

\* strstr(hay, needle) != NULL
StrStr(hay, needle) ==
  \E k \in 0..(Len(hay) - Len(needle)) :
     SubSeq(hay, k + 1, k + Len(needle)) = needle

\* strcpy(reg_name, d_name); strcpy(&reg_name[strlen(d_name)-5], "input")
RegName(d_name) == SubSeq(d_name, 1, Len(d_name) - 5) \o s_input

\* --------------------------------------------------------------- rail table
\* Rows of pmbus_ultra96v2 (device, address, name, label, alias, unit,
\* division); the table ends with the sentinel row of empty device.
Row(dev, ad, nm, lb, al, un, dv) ==
  [device |-> dev, address |-> ad, name |-> nm, label |-> lb,
   alias |-> al, unit |-> un, division |-> dv]
Sentinel == Row("", "", EmptyStr, "", "", "", 1)
TableRows ==
  << Row("irps5401", "6-0043", EmptyStr,    "pout1", "VCCAUX",      "mW", 1000),
     Row("irps5401", "6-0043", temp1_input, "temp1", "Temperature", "C",  1000),
     Row("irps5401", "6-0044", EmptyStr,    "pout1", "VCCPSAUX",    "mW", 1000),
     Row("ir38060",  "6-0045", EmptyStr,    "pout1", "5V",          "mW", 1000) >>
pmbus_list == SubSeq(TableRows, 1, TableLen) \o << Sentinel >>

\* Rows of pmbus_uz7ev_evcc and of pmbus_uz3eg_xxx.
Uz7evRows ==
  << Row("ir38063",  "6-004c", EmptyStr,    "pout1", "Carrier 3V3", "mW", 1000),
     Row("irps5401", "6-0049", temp1_input, "temp1", "Temperature", "C",  1000),
     Row("ir38063",  "6-004b", EmptyStr,    "pout1", "Carrier 1V8", "mW", 1000),
     Row("irps5401", "6-004a", EmptyStr,    "pout1", "Carrier 0V9 MGTAVCC", "mW", 1000) >>
Uz3egRows ==
  << Row("irps5401", "6-0043", EmptyStr,    "pout1", "PSIO",        "mW", 1000),
     Row("irps5401", "6-0043", temp1_input, "temp1", "Temperature", "C",  1000),
     Row("irps5401", "6-0044", EmptyStr,    "pout1", "PSDDR4",      "mW", 1000),
     Row("irps5401", "6-0044", EmptyStr,    "pout2", "INT_IO",      "mW", 1000) >>
pmbus_uz7ev_evcc == SubSeq(Uz7evRows, 1, TableLen) \o << Sentinel >>
pmbus_uz3eg_xxx == SubSeq(Uz3egRows, 1, TableLen) \o << Sentinel >>

\* The boards print_power_utilization knows, in the order of its if
\* statements, the host-name fragment of each and the table it reports.
Boards == << "u96v2", "uz7ev", "uz3eg" >>
BoardSet == { Boards[k] : k \in 1..Len(Boards) }
Fragment(b) ==
  CASE b = "u96v2" -> s_u96v2 [] b = "uz7ev" -> s_uz7ev [] b = "uz3eg" -> s_uz3eg
BoardTable(b) ==
  CASE b = "u96v2" -> pmbus_list
    [] b = "uz7ev" -> pmbus_uz7ev_evcc
    [] b = "uz3eg" -> pmbus_uz3eg_xxx
\* The statement after the if of board b: the next if, or return(0).
After(b) ==
  CASE b = "u96v2" -> "uz7ev" [] b = "uz7ev" -> "uz3eg" [] b = "uz3eg" -> "ret"

\* Host names: of each board, of a machine that is none of them, and one
\* that holds the fragments of two boards.
h_u96v2 == s_u96v2 \o <<"-","s","b","c">>
h_uz7ev == s_uz7ev \o <<"-","e","v","c","c">>
h_uz3eg == s_uz3eg \o <<"-","i","o","c","c">>
h_other == <<"z","c","u","1","0","2">>
h_both == s_uz3eg \o <<"-">> \o s_u96v2
Hosts == {h_u96v2, h_uz7ev, h_uz3eg, h_other, h_both}
\* The hostname command gives no line: popen or fgets returns NULL.
NoOutput == << >>
\* fgets(hostname, sizeof(hostname), fp): the line with its newline
HostLine(h) == h \o << "\n" >>

\* ------------------------------------------------------------------- sysfs
Addresses == {"6-0043", "6-0044"}
Chips == {"irps5401", "ir38060"}
Labels == {"pout1", "pout2"}
Values == {-1500, 45000}

\* What sits at /sys/class/hwmon/hwmon<i>: nothing, or the instance of
\* the chip at an address.
Absent == [addr |-> "absent", chip |-> "absent"]
Devices == [addr : Addresses, chip : Chips] \cup {Absent}
NoBare == [addr |-> "none", chip |-> "none"]

Indices == 0..(MaxHwmon - 1)

Layouts ==
  { h \in [Indices -> Devices] :
      \A a, b \in Indices :
         (a # b /\ h[a].addr \in Addresses) => h[a].addr # h[b].addr }

\* A bound I2C device that registered no hwmon instance.
Bares(h) ==
  {NoBare} \cup { [addr |-> a, chip |-> "irps5401"] :
                    a \in { x \in Addresses : \A k \in Indices : h[k].addr # x } }

\* Entries of an instance directory whose name holds "label": the file
\* name, whether fopen succeeds, and the token fscanf("%s") reads.
LabelNames == {power1_label, power2_label, s_label}
Entries ==
  [name : LabelNames, ok : {TRUE}, text : Labels]
     \cup [name : LabelNames, ok : {FALSE}, text : {""}]
NameEntry == [name |-> s_name, ok |-> TRUE, text |-> "chip"]

RECURSIVE SeqsUpTo(_, _)
SeqsUpTo(S, n) ==
  IF n = 0 THEN { << >> }
  ELSE LET shorter == SeqsUpTo(S, n - 1)
       IN shorter \cup { Append(q, e) : q \in { x \in shorter : Len(x) = n - 1 },
                                        e \in S }

Listings ==
  { q \in SeqsUpTo(Entries, MaxDirLen) :
      \A a, b \in 1..Len(q) : a # b => q[a].name # q[b].name }

Present(f, n) == n \in Indices /\ f.hw[n] # Absent

\* The driver of a chip is named after the chip model.
HasDevice(f, ad) ==
  (\E k \in Indices : f.hw[k].addr = ad) \/ f.bare.addr = ad
HwmonOf(f, ad) == CHOOSE k \in Indices : f.hw[k].addr = ad
ChipAt(f, ad) ==
  IF f.bare.addr = ad THEN f.bare.chip ELSE f.hw[HwmonOf(f, ad)].chip

\* fopen of /sys/class/hwmon/hwmon<n>/device/driver/<ad>/name succeeds:
\* hwmon<n> is the instance of an I2C device, and its driver has a device
\* bound at <ad> (the driver directory links every device it is bound to).
NameFileOpens(f, n, ad) ==
  /\ Present(f, n)
  /\ f.hw[n].addr \in Addresses
  /\ HasDevice(f, ad)
  /\ ChipAt(f, ad) = f.hw[n].chip

\* The token of that name file: the model name of the device at <ad>.
NameFileText(f, ad) == ChipAt(f, ad)

\* opendir of .../device/driver/<ad>/hwmon succeeds: the device at <ad>
\* registered an hwmon instance.
HwmonDirOpens(f, n, ad) ==
  NameFileOpens(f, n, ad) /\ f.bare.addr # ad

\* The entries readdir returns for that directory, in order; an entry is
\* "." , ".." or hwmon<idx>.
Dot == [kind |-> ".", idx |-> 0]
DotDot == [kind |-> "..", idx |-> 0]
\* f.order is the order readdir returns them in; sysfs lists the dot
\* entries first.
DotsFirst == << 1, 2, 3 >>
Orders ==
  { o \in [1..3 -> 1..3] : \A a, b \in 1..3 : a # b => o[a] # o[b] }
HwmonDirEntries(f, ad) ==
  LET es == << Dot, DotDot, [kind |-> "hwmon", idx |-> HwmonOf(f, ad)] >>
  IN [k \in 1..3 |-> es[f.order[k]]]

\* The entries readdir returns for /sys/class/hwmon/hwmon<m>.
InstDirEntries(f, m) == << NameEntry >> \o f.dir

\* ------------------------------------------------------------------- paths
\* The filename buffer, by the pieces it was concatenated from.
Path(k, n, ad, nm) == [k |-> k, id |-> n, addr |-> ad, name |-> nm]
Uninit == Path("uninit", 0, "", EmptyStr)
NamePath(n, ad) == Path("drvname", n, ad, EmptyStr)
HwmonDirPath(n, ad) == Path("drvhwmon", n, ad, EmptyStr)
InstDirPath(m) == Path("inst", m, "", EmptyStr)
AttrPath(m, nm) == Path("attr", m, "", nm)


\* ------------------------------------------------------------------- state
VARIABLES
  fs,            \* the sysfs tree (does not change during a run)
  host,          \* what the hostname command prints (NoOutput: nothing)
  hostname,      \* print_power_utilization: hostname buffer
  stage,         \* print_power_utilization: "none" (not running), the
                 \*   board whose if statement is next or running, "ret"
  reports,       \* boards whose table this invocation has reported
  ppu_ret,       \* value print_power_utilization returned (-1: none yet)
  board,         \* print_pmbus_info: the table passed as pmbus_list
  tables,        \* per board: the rail table, pInfo->name included
  pc,            \* "idle", "enter", "while", "for", "chan", "read",
                 \*   "crashed"
  called,        \* print_pmbus_info has returned before
  i,             \* print_pmbus_info: row index
  filename,      \* print_pmbus_info: filename buffer
  pmbus_value,   \* print_pmbus_info: value read (set = FALSE: uninitialized)
  out,           \* value lines printed by the current print_pmbus_info
  hwmon_id,      \* get_pmbus_device_filename: loop index / instance index
  num_hwmon_devices,
  reg_label,     \* get_pmbus_device_filename: label comparison buffer
  ret,           \* value returned by get_pmbus_device_filename
  errno,
  how,           \* exit path of the last call: "explicit", "label",
                 \*   "notfound", "direrr"; "none" while it runs
  nameAtCall,    \* pInfo->name when the call started
  probes,        \* indices whose name file the call tried to open
  opened,        \* entries the call's latest label scan passed to fopen
  scanned,       \* instance index of the call's latest label scan, or -1
  held,          \* paths of which the call holds a stream open (opened
                 \*   by fopen/opendir, not yet closed)
  hists,         \* per board and row: exit path and path of its
                 \*   previous call
  rd,            \* outcome of the last fopen/fscanf of print_pmbus_info
  ecall,         \* the last call of read_sysfs_entry / get_device_hwmon_id
  handles        \* FILE handles open that no variable refers to any more

vars == << fs, host, hostname, stage, reports, ppu_ret, board, tables, pc,
           called, i, filename, pmbus_value, out, hwmon_id,
           num_hwmon_devices, reg_label, ret, errno, how, nameAtCall,
           probes, opened, scanned, held, hists, rd, ecall, handles >>

\* The table and the call history print_pmbus_info works on.
table == tables[board]
hist == hists[board]

resolverVars == << hwmon_id, num_hwmon_devices, reg_label, ret, how,
                   nameAtCall, probes, opened, scanned, held >>

ppuVars == << host, hostname, stage, reports, ppu_ret >>
enumVars == << ecall, handles >>
outerVars == << board, host, hostname, stage, reports, ppu_ret, ecall,
                handles >>

NoCall == [fn |-> "none", idx |-> 0, name |-> "", before |-> "",
           value |-> "", ret |-> 0]
NoRead == [st |-> "none", v |-> 0]
NoHist == [how |-> "none", path |-> Uninit]

FileSystems ==
  { [classOpen |-> TRUE, hw |-> h, bare |-> b, dir |-> d, order |-> DotsFirst] :
       h \in Layouts, b \in UNION { Bares(x) : x \in Layouts }, d \in Listings }

\* The trees a run may find: the well-formed ones, and one whose
\* /sys/class/hwmon cannot be opened.
Trees ==
  { f \in FileSystems : f.bare \in Bares(f.hw) }
     \cup { [classOpen |-> FALSE, hw |-> [k \in Indices |-> Absent],
             bare |-> NoBare, dir |-> << >>, order |-> DotsFirst] }
\* The trees of instances alone: no device without instance, no label file.
PlainTrees == { f \in Trees : f.bare = NoBare /\ f.dir = << >> }

\* The trees of instances alone whose hwmon directories list their entries
\* in any order.
OrderTrees == { [f EXCEPT !.order = o] : f \in PlainTrees, o \in Orders }

\* Label files that open and hold no token, or a label.
EmptyEntries ==
  [name : {power1_label, power2_label}, ok : {TRUE}, text : {""} \cup Labels]
EmptyListings ==
  { q \in SeqsUpTo(EmptyEntries, MaxDirLen) :
      \A a, b \in 1..Len(q) : a # b => q[a].name # q[b].name }
\* The trees of one irps5401 at 6-0043, instance hwmon0, whose directory
\* may list empty label files.
EmptyTrees ==
  { [classOpen |-> TRUE,
     hw |-> [k \in Indices |-> IF k = 0
                                THEN [addr |-> "6-0043", chip |-> "irps5401"]
                                ELSE Absent],
     bare |-> NoBare, dir |-> d, order |-> DotsFirst] : d \in EmptyListings }

\* char reg_label[..] is not initialized: what the buffer may hold when
\* the first call starts.
StackBytes == {""} \cup Labels

InitWith(trees, hosts, bytes) ==
  /\ fs \in trees
  /\ host \in hosts
  /\ hostname = EmptyStr
  /\ stage = "none"
  /\ reports = << >>
  /\ ppu_ret = -1
  /\ board = Boards[1]
  /\ tables = [b \in BoardSet |-> BoardTable(b)]
  /\ ecall = NoCall
  /\ handles = 0
  /\ pc = "idle"
  /\ called = FALSE
  /\ i = 0
  /\ filename = Uninit
  /\ pmbus_value = [set |-> FALSE, v |-> 0]
  /\ out = << >>
  /\ hwmon_id = -1
  /\ num_hwmon_devices = 0
  /\ reg_label \in bytes
  /\ ret = -1
  /\ errno = 0
  /\ how = "none"
  /\ nameAtCall = EmptyStr
  /\ probes = {}
  /\ opened = << >>
  /\ scanned = -1
  /\ held = {}
  /\ hists = [b \in BoardSet |-> [r \in 1..TableLen |-> NoHist]]
  /\ rd = NoRead

\* A run on an Ultra96-V2 over any tree.
Init == InitWith(Trees, {h_u96v2}, {""})
\* A run on any host over a tree of instances alone.
BoardInit == InitWith(PlainTrees, Hosts \cup {NoOutput}, {""})
\* The hwmon enumerator reads the class directory and the name files only.
EnumInit == InitWith(PlainTrees, {h_u96v2}, {""})
\* A run on an Ultra96-V2 whose hwmon directories list in any order.
OrderInit == InitWith(OrderTrees, {h_u96v2}, {""})
\* A run over label files that may be empty, on a host that reports one
\* table or two, with any bytes in the label buffer.
EmptyInit == InitWith(EmptyTrees, {h_u96v2, h_both}, StackBytes)

\* ----------------------------------------------- count_hwmon_reg_devices
\* The number of entries of /sys/class/hwmon whose name holds "hwmon";
\* errno when the directory cannot be opened.
count_hwmon_reg_devices(f) ==
  IF ~f.classOpen THEN ENOENT
  ELSE Cardinality({ k \in Indices : Present(f, k) })

\* ------------------------------------------------ print_power_utilization
\* the board is reported whatever the host name is
BoardMatches_Always(name, fragment) == TRUE

\* strstr(hostname, "<fragment>") != NULL
BoardMatches(name, fragment) == StrStr(name, fragment)

\* Entry of print_power_utilization (it may be called any number of
\* times): hostname = "", then the line the hostname command prints; the
\* buffer stays empty when popen or fgets returns NULL.
PowerStart ==
  /\ pc = "idle"
  /\ stage = "none"
  /\ hostname' = IF host = NoOutput THEN EmptyStr ELSE HostLine(host)
  /\ stage' = Boards[1]
  /\ reports' = << >>
  /\ ppu_ret' = -1
  /\ UNCHANGED << fs, host, board, tables, pc, called, i, filename,
                  pmbus_value, out, errno, hists, rd >>
  /\ UNCHANGED resolverVars
  /\ UNCHANGED enumVars

\* if ( strstr(hostname, "<fragment of b>") ): call print_pmbus_info with
\* the table of b, or go on to the next statement.
IfBoard(b) ==
  /\ pc = "idle"
  /\ stage = b
  /\ IF BoardMatches(hostname, Fragment(b))
     THEN pc' = "enter" /\ UNCHANGED stage
     ELSE stage' = After(b) /\ UNCHANGED pc
  /\ UNCHANGED << fs, host, hostname, reports, ppu_ret, board, tables, called,
                  i, filename, pmbus_value, out, errno, hists, rd >>
  /\ UNCHANGED resolverVars
  /\ UNCHANGED enumVars

IfU96v2 == IfBoard("u96v2")
IfUz7ev == IfBoard("uz7ev")
IfUz3eg == IfBoard("uz3eg")

\* return(0)
PowerReturn ==
  /\ pc = "idle"
  /\ stage = "ret"
  /\ ppu_ret' = 0
  /\ stage' = "none"
  /\ UNCHANGED << fs, host, hostname, reports, board, tables, pc, called, i,
                  filename, pmbus_value, out, errno, hists, rd >>
  /\ UNCHANGED resolverVars
  /\ UNCHANGED enumVars

\* ------------------------------------------------------- print_pmbus_info
\* Entry of print_pmbus_info with the table of the board whose if
\* statement called it: the locals are fresh, i = 0.
StartReport ==
  /\ pc = "enter"
  /\ board' = stage
  /\ reports' = Append(reports, stage)
  /\ pc' = "while"
  /\ i' = 0
  /\ filename' = Uninit
  /\ pmbus_value' = [set |-> FALSE, v |-> 0]
  /\ out' = << >>
  /\ rd' = NoRead
  /\ UNCHANGED << fs, host, hostname, stage, ppu_ret, tables, called, errno,
                  hists >>
  /\ UNCHANGED resolverVars
  /\ UNCHANGED enumVars

\* while ( strcmp(pmbus_list[i].device,"") ): return at the sentinel row
\* (the locals of print_pmbus_info and of its last call end with it),
\* otherwise enter get_pmbus_device_filename for row i.
WhileExit ==
  /\ pc = "while"
  /\ table[i + 1].device = ""
  /\ pc' = "idle"
  /\ stage' = After(board)
  /\ called' = TRUE
  /\ i' = 0
  /\ filename' = Uninit
  /\ pmbus_value' = [set |-> FALSE, v |-> 0]
  /\ rd' = NoRead
  /\ hwmon_id' = -1
  /\ num_hwmon_devices' = 0
  /\ ret' = -1
  /\ how' = "none"
  /\ nameAtCall' = EmptyStr
  /\ probes' = {}
  /\ opened' = << >>
  /\ scanned' = -1
  /\ held' = {}
  /\ UNCHANGED << fs, host, hostname, reports, ppu_ret, board, tables, out,
                  reg_label, errno, hists >>
  /\ UNCHANGED enumVars

WhileCall ==
  /\ pc = "while"
  /\ table[i + 1].device # ""
  /\ pc' = "for"
  /\ hwmon_id' = 0
  /\ num_hwmon_devices' = count_hwmon_reg_devices(fs)
  /\ errno' = IF fs.classOpen THEN errno ELSE ENOENT
  /\ how' = "none"
  /\ ret' = -1
  /\ nameAtCall' = table[i + 1].name
  /\ probes' = {}
  /\ opened' = << >>
  /\ scanned' = -1
  /\ held' = {}
  /\ UNCHANGED << fs, tables, called, i, filename, pmbus_value, out,
                  reg_label, hists, rd >>
  /\ UNCHANGED outerVars


\* ------------------------------------------- get_pmbus_device_filename
\* the model name is not compared
DeviceMatches_Any(device, device_name) == TRUE

\* strcmp(pInfo->device, device_name) == 0
DeviceMatches(device, device_name) == device = device_name

\* the index advances by two
NextIndex_Skip(id) == id + 2

\* hwmon_id++ of the for statement
NextIndex(id) == id + 1

\* sscanf(&(dir->d_name[5]), "%d", &hwmon_id) on the third entry readdir
\* returned: the suffix of hwmon<M>; for "." and ".." the bytes read lie
\* behind the end of the name, and the index is whatever they hold (or the
\* old one when they hold no digits).
InstanceIndex(entry, old) ==
  IF entry.kind = "hwmon" THEN {entry.idx} ELSE {old} \cup Indices

\* strstr(dir->d_name, "label") != NULL
IsLabelEntry(d_name) == StrStr(d_name, s_label)

\* the test of strcmp is inverted
LabelMatches_Inverted(buf, label) == buf # label

\* !strcmp(reg_label, pInfo->label)
LabelMatches(buf, label) == buf = label

\* fscanf(fp, "%s", &reg_label): an empty file leaves the buffer as it was
ScanToken(buf, text) == IF text = "" THEN buf ELSE text

\* break instead of continue
SkipTo_Break(entries, k) == Len(entries) + 1

\* continue after a label file that fopen cannot open: the next entry
SkipTo(entries, k) == k + 1

\* the resolved name is not remembered
CacheName_Forget(reg_name) == EmptyStr

\* pInfo->name = malloc(strlen(reg_name)+1); strcpy(pInfo->name, reg_name)
CacheName(reg_name) == reg_name

\* while((dir = readdir(d)) != NULL) from entry k on: the entry that
\* matched (at = 0 when none did), with the filename buffer, the label
\* buffer and the fopen calls as the loop left them.
RECURSIVE LabelScan(_, _, _, _, _, _, _)
LabelScan(entries, m, label, k, fname, buf, ops) ==
  IF k > Len(entries)
  THEN [at |-> 0, filename |-> fname, reg_label |-> buf, opened |-> ops]
  ELSE LET e == entries[k]
           path == AttrPath(m, e.name)
       IN IF ~IsLabelEntry(e.name)
          THEN LabelScan(entries, m, label, k + 1, fname, buf, ops)
          ELSE IF ~e.ok
          THEN LabelScan(entries, m, label, SkipTo(entries, k), path, buf,
                         Append(ops, e.name))
          ELSE LET b == ScanToken(buf, e.text)
               IN IF LabelMatches(b, label)
                  THEN [at |-> k, filename |-> path, reg_label |-> b,
                        opened |-> Append(ops, e.name)]
                  ELSE LabelScan(entries, m, label, k + 1, path, b,
                                 Append(ops, e.name))

\* the name is written to every row of the table
WriteName_AllRows(tbls, b, r, nm) ==
  [tbls EXCEPT ![b] = [k \in DOMAIN tbls[b] |-> [tbls[b][k] EXCEPT !.name = nm]]]

\* pInfo->name = ...: the name field of row r of the table of board b
WriteName(tbls, b, r, nm) == [tbls EXCEPT ![b][r].name = nm]

\* the attribute name is not appended to the directory path
ExplicitPath_NoName(m, name) == InstDirPath(m)

\* The path composed for an explicit attribute name.
ExplicitPath(m, name) == AttrPath(m, name)

\* for(...; hwmon_id < num_hwmon_devices; ...) is over: free, return(-1)
ForExit ==
  /\ pc = "for"
  /\ ~(hwmon_id < num_hwmon_devices)
  /\ ret' = -1
  /\ how' = "notfound"
  /\ pc' = "read"
  /\ UNCHANGED << fs, tables, called, i, filename, pmbus_value, out, hwmon_id,
                  num_hwmon_devices, reg_label, errno, nameAtCall, probes,
                  opened, scanned, held, hists, rd >>
  /\ UNCHANGED outerVars

\* One pass of the for body up to the instance index: the name file of
\* hwmon<hwmon_id> for the address, the model comparison, the hwmon
\* directory of the address and its third entry.
ForProbe ==
  /\ pc = "for"
  /\ hwmon_id < num_hwmon_devices
  /\ LET d == table[i + 1]
         n == hwmon_id
     IN /\ probes' = probes \cup {n}
        /\ IF ~NameFileOpens(fs, n, d.address)
           THEN /\ filename' = NamePath(n, d.address)
                /\ errno' = ENOENT
                /\ hwmon_id' = NextIndex(n)
                /\ UNCHANGED << pc, ret, how, held >>
           ELSE IF ~DeviceMatches(d.device, NameFileText(fs, d.address))
           THEN /\ filename' = NamePath(n, d.address)
                /\ hwmon_id' = NextIndex(n)
                /\ UNCHANGED << pc, ret, how, errno, held >>
           ELSE IF ~HwmonDirOpens(fs, n, d.address)
           THEN /\ filename' = HwmonDirPath(n, d.address)
                /\ errno' = ENOENT
                /\ ret' = ENOENT
                /\ how' = "direrr"
                /\ pc' = "read"
                /\ UNCHANGED << hwmon_id, held >>
           ELSE IF Len(HwmonDirEntries(fs, d.address)) < 3
           THEN /\ filename' = HwmonDirPath(n, d.address)
                /\ ret' = errno
                /\ how' = "direrr"
                /\ pc' = "read"
                /\ held' = held \cup {HwmonDirPath(n, d.address)}
                /\ UNCHANGED << hwmon_id, errno >>
           ELSE /\ filename' = HwmonDirPath(n, d.address)
                /\ hwmon_id' \in InstanceIndex(HwmonDirEntries(fs, d.address)[3], n)
                /\ pc' = "chan"
                /\ held' = held \cup {HwmonDirPath(n, d.address)}
                /\ UNCHANGED << ret, how, errno >>
  /\ UNCHANGED << fs, tables, called, i, pmbus_value, out, num_hwmon_devices,
                  reg_label, nameAtCall, opened, scanned, hists, rd >>
  /\ UNCHANGED outerVars

\* The rest of the for body: the explicit name, or the label scan of
\* /sys/class/hwmon/hwmon<hwmon_id>; a scan without match falls out of the
\* body, and the for statement increments hwmon_id.
Channel ==
  /\ pc = "chan"
  /\ LET d == table[i + 1]
         m == hwmon_id
     IN IF d.name # EmptyStr
        THEN /\ filename' = ExplicitPath(m, d.name)
             /\ ret' = m
             /\ how' = "explicit"
             /\ pc' = "read"
             /\ UNCHANGED << tables, hwmon_id, reg_label, errno, opened, scanned,
                             held >>
        ELSE IF ~Present(fs, m)
        THEN /\ filename' = InstDirPath(m)
             /\ errno' = ENOENT
             /\ ret' = ENOENT
             /\ how' = "direrr"
             /\ pc' = "read"
             /\ scanned' = m
             /\ UNCHANGED << tables, hwmon_id, reg_label, opened, held >>
        ELSE LET s == LabelScan(InstDirEntries(fs, m), m, d.label, 1,
                                InstDirPath(m), reg_label, << >>)
                 failed == \E k \in 1..Len(s.opened) :
                              \E e \in { InstDirEntries(fs, m)[x] :
                                           x \in 1..Len(InstDirEntries(fs, m)) } :
                                 e.name = s.opened[k] /\ ~e.ok
             IN /\ reg_label' = s.reg_label
                /\ opened' = s.opened
                /\ scanned' = m
                /\ errno' = IF failed THEN ENOENT ELSE errno
                /\ IF s.at # 0
                   THEN LET reg_name == RegName(InstDirEntries(fs, m)[s.at].name)
                        IN /\ tables' = WriteName(tables, board, i + 1,
                                                CacheName(reg_name))
                           /\ held' = held \cup {InstDirPath(m)}
                           /\ filename' = AttrPath(m, reg_name)
                           /\ ret' = m
                           /\ how' = "label"
                           /\ pc' = "read"
                           /\ UNCHANGED hwmon_id
                   ELSE /\ filename' = s.filename
                        /\ hwmon_id' = NextIndex(m)
                        /\ pc' = "for"
                        /\ UNCHANGED << tables, ret, how, held >>
  /\ UNCHANGED << fs, called, i, pmbus_value, out, num_hwmon_devices,
                  nameAtCall, probes, hists, rd >>
  /\ UNCHANGED outerVars


\* ---------------------------------------- print_pmbus_info, after the call
\* What fopen(filename,"r") and fscanf(fp,"%ld",..) can give for a path:
\* "absent" (fopen returns NULL), "malformed" (opened, no integer read),
\* "ok" with the integer read.  A file that is no entry of the modelled
\* listing (an *_input attribute) is the environment's: it may be missing,
\* unparsable or hold any of Values at the time of the read.
AbsentRead == [st |-> "absent", v |-> 0]
Malformed == [st |-> "malformed", v |-> 0]
AllReads == {AbsentRead, Malformed} \cup [st : {"ok"}, v : Values]

PossibleReads(f, path) ==
  CASE path.k = "uninit" -> AllReads
    [] path.k = "drvname" ->
         IF NameFileOpens(f, path.id, path.addr) THEN {Malformed} ELSE {AbsentRead}
    [] path.k = "drvhwmon" ->
         IF HwmonDirOpens(f, path.id, path.addr) THEN {Malformed} ELSE {AbsentRead}
    [] path.k = "inst" ->
         IF Present(f, path.id) THEN {Malformed} ELSE {AbsentRead}
    [] path.k = "attr" ->
         IF ~Present(f, path.id) THEN {AbsentRead}
         ELSE LET es == InstDirEntries(f, path.id)
                  hit == { x \in 1..Len(es) : es[x].name = path.name }
              IN IF hit = {} THEN AllReads
                 ELSE IF \E x \in hit : es[x].ok THEN {Malformed}
                 ELSE {AbsentRead}

\* the quotient is rounded toward minus infinity
CDiv_Floor(a, b) == a \div b

\* pmbus_value / division on C long operands: the quotient is truncated
\* toward zero.
CDiv(a, b) == IF a >= 0 THEN a \div b ELSE -((-a) \div b)

\* the row index is not advanced
NextRow_Stay(row) == row

\* i++ at the end of the while body
NextRow(row) == row + 1

\* The value line printf writes for row d.
Line(row, d, q) ==
  [row |-> row, device |-> d.device, address |-> d.address,
   label |-> d.label, alias |-> d.alias, value |-> q, unit |-> d.unit]

\* fopen, fscanf, fclose, printf, i++ of print_pmbus_info; the value
\* returned by get_pmbus_device_filename is not looked at.  fscanf and
\* fclose on a NULL stream are undefined: the process dies there, or the
\* calls fail and leave pmbus_value alone.  An uninitialized pmbus_value
\* prints as any value.
ReadPrint ==
  /\ pc = "read"
  /\ LET d == table[i + 1]
     IN \E r \in PossibleReads(fs, filename) :
          /\ rd' = r
          /\ hists' = [hists EXCEPT
                         ![board][i + 1] = [how |-> how, path |-> filename]]
          /\ errno' = IF r.st = "absent" THEN ENOENT ELSE errno
          /\ \/ /\ r.st = "absent"
                /\ pc' = "crashed"
                /\ UNCHANGED << i, pmbus_value, out >>
             \/ /\ pmbus_value' = IF r.st = "ok" THEN [set |-> TRUE, v |-> r.v]
                                  ELSE pmbus_value
                /\ \E raw \in IF pmbus_value'.set THEN {pmbus_value'.v} ELSE Values :
                      out' = Append(out, Line(i, d, CDiv(raw, d.division)))
                /\ i' = NextRow(i)
                /\ pc' = "while"
  /\ UNCHANGED << fs, tables, called, filename >>
  /\ UNCHANGED resolverVars
  /\ UNCHANGED outerVars

\* ------------------------------------------------------- read_sysfs_entry
Names == Chips \cup {"ams"}
\* What a buffer nobody wrote yet may hold.
Buffers == Names \cup {"junk"}

\* fopen of /sys/class/hwmon/hwmon<idx>/name succeeds, and its token: the
\* instance is named after its chip.
SysfsNameOpens(f, idx) == f.classOpen /\ Present(f, idx)
HwmonName(f, idx) == f.hw[idx].chip

\* the buffer is cleared when the file cannot be opened
OpenFailure_Clobber(value) == [ret |-> ENOENT, value |-> "", opened |-> FALSE]

\* if(fp == NULL) { printf(...); return(errno); }
OpenFailure(value) == [ret |-> ENOENT, value |-> value, opened |-> FALSE]

\* read_sysfs_entry(".../hwmon<idx>/name", value): the result, the buffer,
\* and whether a stream was opened (no fclose follows the fscanf).
read_sysfs_entry(f, idx, value) ==
  IF ~SysfsNameOpens(f, idx) THEN OpenFailure(value)
  ELSE [ret |-> 0, value |-> ScanToken(value, HwmonName(f, idx)),
        opened |-> TRUE]

\* A call of read_sysfs_entry on the name file of an index, with a buffer
\* of the caller.
ReadSysfsEntry ==
  /\ pc = "idle"
  /\ \E idx \in 0..MaxHwmon, before \in Buffers :
       LET r == read_sysfs_entry(fs, idx, before)
       IN /\ handles' = handles + (IF r.opened THEN 1 ELSE 0)
          /\ handles' <= MaxHandles
          /\ errno' = IF r.opened THEN errno ELSE ENOENT
          /\ ecall' = [fn |-> "read_sysfs_entry", idx |-> idx, name |-> "",
                       before |-> before, value |-> r.value, ret |-> r.ret]
  /\ UNCHANGED << fs, board, tables, pc, called, i, filename, pmbus_value, out,
                  hists, rd >>
  /\ UNCHANGED resolverVars
  /\ UNCHANGED ppuVars

\* ---------------------------------------------------- get_device_hwmon_id
\* for(hwmon_id = 0; hwmon_id < num_hwmon_devices; hwmon_id++) from index id
\* on: the value returned, and the streams read_sysfs_entry left open.  The
\* value read_sysfs_entry returns is not looked at.
RECURSIVE HwmonIdScan(_, _, _, _, _, _)
HwmonIdScan(f, name, id, num, device_name, opens) ==
  IF ~(id < num) THEN [ret |-> -1, opens |-> opens]
  ELSE LET r == read_sysfs_entry(f, id, device_name)
           o == opens + (IF r.opened THEN 1 ELSE 0)
       IN IF name = r.value THEN [ret |-> id, opens |-> o]
          ELSE HwmonIdScan(f, name, NextIndex(id), num, r.value, o)

\* A call of get_device_hwmon_id(name); device_name = malloc(255) holds
\* whatever the allocator hands out.
GetDeviceHwmonId ==
  /\ pc = "idle"
  /\ \E name \in Names, garbage \in Buffers :
       LET num == count_hwmon_reg_devices(fs)
           s == HwmonIdScan(fs, name, 0, num, garbage, 0)
       IN /\ handles' = handles + s.opens
          /\ handles' <= MaxHandles
          /\ errno' = IF \E k \in 0..(num - 1) : ~SysfsNameOpens(fs, k)
                      THEN ENOENT ELSE errno
          /\ ecall' = [fn |-> "get_device_hwmon_id", idx |-> 0, name |-> name,
                       before |-> garbage, value |-> "", ret |-> s.ret]
  /\ UNCHANGED << fs, board, tables, pc, called, i, filename, pmbus_value, out,
                  hists, rd >>
  /\ UNCHANGED resolverVars
  /\ UNCHANGED ppuVars


Next ==
  \/ PowerStart
  \/ IfU96v2
  \/ IfUz7ev
  \/ IfUz3eg
  \/ PowerReturn
  \/ StartReport
  \/ WhileExit
  \/ WhileCall
  \/ ForExit
  \/ ForProbe
  \/ Channel
  \/ ReadPrint

Spec == Init /\ [][Next]_vars

\* The program is sequential and runs a step whenever it has one.
FairSpec == Init /\ [][Next]_vars /\ WF_vars(Next)

\* The power report on any host.
BoardSpec == BoardInit /\ [][Next]_vars

\* The power report when readdir may return the dot entries anywhere.
OrderSpec == OrderInit /\ [][Next]_vars

\* The power report over label files that may be empty.
EmptySpec == EmptyInit /\ [][Next]_vars

\* The hwmon enumerator, called any number of times.
EnumNext ==
  \/ ReadSysfsEntry
  \/ GetDeviceHwmonId

EnumSpec == EnumInit /\ [][EnumNext]_vars


\* ================================================================= claims
Succeeded(h) == h \in {"explicit", "label"}
InCall == pc \in {"for", "chan"}
Returned == pc = "read"
\* print_pmbus_info has just finished row i-1 (line printed, i incremented)
RowDone == pc = "while" /\ i > 0
\* no hwmon instance is bound at the address of table row r (1-based)
NoInstanceAt(r) == \A k \in Indices : fs.hw[k].addr # table[r].address

\* C1: for every rail whose resolution fails because no hwmon instance is
\* bound at its address, print_pmbus_info prints no line for that rail and
\* goes on to the next row (the process does not die on that rail).
C1_FailedRailSilent ==
  /\ \A k \in 1..Len(out) : ~NoInstanceAt(out[k].row + 1)
  /\ pc = "crashed" => ~NoInstanceAt(i + 1)

\* C2: every call of get_pmbus_device_filename terminates: a call that is
\* running eventually returns to print_pmbus_info.
C2_CallTerminates == InCall ~> Returned


\* The row a call in progress or just returned is working on.
Cur == table[i + 1]

\* C3: a call whose descriptor has a non-empty name when it starts opens
\* no entry of an instance directory and lists no instance directory; and
\* once the index of the instance at the address is found, the path it
\* returns is /sys/class/hwmon/hwmon<index>/<name>.
C3_ExplicitNoScan ==
  ((InCall \/ Returned) /\ nameAtCall # EmptyStr) =>
     /\ opened = << >>
     /\ scanned = -1
     /\ how # "label"
     /\ how = "explicit" =>
          /\ filename = [k |-> "attr", id |-> ret, addr |-> "", name |-> nameAtCall]
          /\ fs.hw[ret].addr = Cur.address
C3_Witness ==
  Returned /\ ~called /\ nameAtCall = temp1_input /\ how = "explicit" /\ ret = 1

\* C4: a call on a row whose previous call succeeded by label scan returns
\* the same path as that call and opens no label file.
C4_SecondCallCached ==
  (Returned /\ hist[i + 1].how = "label") =>
     /\ Succeeded(how)
     /\ filename = hist[i + 1].path
     /\ opened = << >>
     /\ scanned = -1
C4_Witness ==
  /\ Returned
  /\ called
  /\ hist[i + 1].how = "label"
  /\ filename = hist[i + 1].path
  /\ filename.name = s_power2 \o <<"_">> \o s_input

\* a name of the form <prefix>_label with a non-empty prefix
HasLabelSuffix(nm) ==
  Len(nm) > 6 /\ SubSeq(nm, Len(nm) - 5, Len(nm)) = s_ulabel

\* C5: the label scan opens only entries named <prefix>_label, and on a
\* match the resolved name is <prefix>_input for the same prefix.
C5_OnlyLabelSuffix ==
  /\ \A k \in 1..Len(opened) : HasLabelSuffix(opened[k])
  /\ (Returned /\ how = "label") =>
        \E k \in 1..Len(opened) :
           /\ HasLabelSuffix(opened[k])
           /\ filename.name =
                 SubSeq(opened[k], 1, Len(opened[k]) - 6) \o <<"_">> \o s_input

\* positions of the entries of instance directory m that fopen opens and
\* whose text equals the label
MatchingAt(m, label) ==
  { k \in 1..Len(InstDirEntries(fs, m)) :
      InstDirEntries(fs, m)[k].ok /\ InstDirEntries(fs, m)[k].text = label }
FirstOf(S) == CHOOSE k \in S : \A j \in S : k <= j
\* the names of the entries at positions 1..n that hold "label", in order
RECURSIVE LabelNamesUpTo(_, _)
LabelNamesUpTo(es, n) ==
  IF n = 0 THEN << >>
  ELSE IF StrStr(es[n].name, s_label)
       THEN Append(LabelNamesUpTo(es, n - 1), es[n].name)
       ELSE LabelNamesUpTo(es, n - 1)

\* C6: when a call succeeds by label scan, the channel it resolves to is
\* the one of the first entry, in enumeration order, whose text equals the
\* label, and no entry after that one was opened.
C6_FirstMatchWins ==
  (Returned /\ how = "label") =>
     LET es == InstDirEntries(fs, ret)
         first == FirstOf(MatchingAt(ret, Cur.label))
     IN /\ MatchingAt(ret, Cur.label) # {}
        /\ SubSeq(filename.name, 1, Len(filename.name) - 5)
              = SubSeq(es[first].name, 1, Len(es[first].name) - 5)
        /\ opened[Len(opened)] = es[first].name
        /\ \A j \in 1..Len(opened) : \E k \in 1..first : es[k].name = opened[j]
C6_Witness ==
  /\ Returned
  /\ how = "label"
  /\ Cardinality(MatchingAt(ret, Cur.label)) = 2
  /\ filename.name = s_power2 \o <<"_">> \o s_input

\* C7: a label scan that ends without a match has passed to fopen every
\* label file of the directory, in enumeration order, and no file of the
\* directory that opens has a text equal to the label.
C7_ScanExhaustive ==
  ((InCall \/ Returned) /\ scanned # -1 /\ how \in {"none", "notfound"}) =>
     /\ Present(fs, scanned)
     /\ MatchingAt(scanned, Cur.label) = {}
     /\ opened = LabelNamesUpTo(InstDirEntries(fs, scanned),
                                Len(InstDirEntries(fs, scanned)))
C7_Witness ==
  /\ Returned
  /\ how = "notfound"
  /\ scanned # -1
  /\ Len(opened) = 2
  /\ ~InstDirEntries(fs, scanned)[2].ok
  /\ InstDirEntries(fs, scanned)[3].ok

\* C8: a call that succeeds returns a path under the hwmon instance bound
\* at the descriptor's address, whose driver-side name file opens and
\* reads the descriptor's device.
C8_RightInstance ==
  (Returned /\ Succeeded(how)) =>
     /\ filename.k = "attr"
     /\ filename.id = ret
     /\ Present(fs, ret)
     /\ fs.hw[ret].addr = Cur.address
     /\ NameFileOpens(fs, ret, Cur.address)
     /\ NameFileText(fs, Cur.address) = Cur.device
C8_Witness ==
  /\ Returned
  /\ how = "label"
  /\ ret = 1
  /\ 0 \in probes
  /\ fs.hw[0].chip = Cur.device
  /\ fs.hw[0].addr # Cur.address

\* no index below the count has a name file for the row's address that
\* opens and reads the row's device
NoIndexMatches ==
  \A n \in 0..(num_hwmon_devices - 1) :
     ~(NameFileOpens(fs, n, Cur.address)
         /\ NameFileText(fs, Cur.address) = Cur.device)

\* C9: when no index below the count has an openable name file reading the
\* device, the call never goes on to the channel step, and it returns -1
\* after probing every index, leaving pInfo->name as it was.
C9_NotFound ==
  ((InCall \/ Returned) /\ NoIndexMatches) =>
     /\ pc # "chan"
     /\ Returned =>
          /\ ret = -1
          /\ how = "notfound"
          /\ probes = 0..(num_hwmon_devices - 1)
          /\ Cur.name = nameAtCall
C9_Witness ==
  /\ Returned
  /\ NoIndexMatches
  /\ num_hwmon_devices = 2
  /\ ret = -1
  /\ \E n \in Indices : NameFileOpens(fs, n, Cur.address)

\* C10: the line printed for a successfully resolved rail whose file held
\* the integer v carries the row's device, address, label, alias and unit,
\* and the quotient of v by the row's division truncated toward zero.
C10_LineValue ==
  (RowDone /\ Succeeded(hist[i].how) /\ rd.st = "ok") =>
     LET ln == out[Len(out)]
         d == TableRows[i]
         q == ln.value
     IN /\ ln.row = i - 1
        /\ ln.device = d.device /\ ln.address = d.address
        /\ ln.label = d.label /\ ln.alias = d.alias /\ ln.unit = d.unit
        /\ IF rd.v >= 0
           THEN q * d.division <= rd.v /\ rd.v < (q + 1) * d.division
           ELSE (q - 1) * d.division < rd.v /\ rd.v <= q * d.division
C10_Witness ==
  /\ RowDone
  /\ Succeeded(hist[i].how)
  /\ rd = [st |-> "ok", v |-> -1500]
  /\ out[Len(out)].value = -1

\* C11: the value lines of one print_pmbus_info are in table order: at most
\* one line per row, and the line of row a before the line of row b when
\* a < b, whichever rows resolved or failed.
C11_TableOrder ==
  \A a, b \in 1..Len(out) :
     /\ out[a].row \in 0..(TableLen - 1)
     /\ a < b => out[a].row < out[b].row

\* two lines, the first one of a row whose call found no instance
C11_Witness ==
  /\ Len(out) = 2
  /\ out[1].row = 0
  /\ out[2].row = 1
  /\ hist[1].how = "notfound"
  /\ Succeeded(hist[2].how)

\* C12: no rail halts the report: a print_pmbus_info that has started
\* reaches the sentinel row and returns.
C12_ReportCompletes == (pc = "while" /\ i = 0) ~> (pc = "idle")

\* the host name holds the fragment of no board
NoBoard(name) == \A b \in BoardSet : ~StrStr(name, Fragment(b))

\* C13: when the hostname buffer holds the fragment of no board (the empty
\* buffer of a failed hostname command included), print_power_utilization
\* calls print_pmbus_info for no table, so no resolver runs and no rail is
\* reported, and the value it returns is 0.
C13_NoBoardNoReport ==
  NoBoard(hostname) =>
     /\ pc = "idle"
     /\ reports = << >>
     /\ ppu_ret \in {-1, 0}
     /\ (stage = "none" /\ ppu_ret = -1) => hostname = EmptyStr /\ ~called

\* an invocation on a host that is no known board has returned
C13_Witness ==
  /\ host = h_other
  /\ hostname = HostLine(h_other)
  /\ stage = "none"
  /\ ppu_ret = 0
  /\ reports = << >>

\* C15: when /sys/class/hwmon cannot be opened, what
\* count_hwmon_reg_devices returns is not taken for a number of indices:
\* get_pmbus_device_filename scans no index.
C15_FailureNotACount == ~fs.classOpen => probes = {}

\* the smallest member of a non-empty set of integers
Least(S) == CHOOSE x \in S : \A y \in S : x <= y

\* C16: get_device_hwmon_id(name) returns the smallest index below the
\* count whose name file opens and holds name, and -1 when there is none;
\* an index whose name file cannot be opened is no match.
C16_SmallestNamedIndex ==
  ecall.fn = "get_device_hwmon_id" =>
     LET num == count_hwmon_reg_devices(fs)
         M == { k \in 0..(num - 1) :
                  SysfsNameOpens(fs, k) /\ HwmonName(fs, k) = ecall.name }
     IN ecall.ret = IF M = {} THEN -1 ELSE Least(M)

\* C17: read_sysfs_entry on a path fopen cannot open returns a non-zero
\* result and leaves the caller's buffer as it was; on a path that opens it
\* returns 0 with the first token of the file in the buffer.
C17_ReadSysfsEntry ==
  ecall.fn = "read_sysfs_entry" =>
     IF SysfsNameOpens(fs, ecall.idx)
     THEN ecall.ret = 0 /\ ecall.value = HwmonName(fs, ecall.idx)
     ELSE ecall.ret # 0 /\ ecall.value = ecall.before

\* a failed read with a buffer that held a name
C17_Witness ==
  /\ ecall.fn = "read_sysfs_entry"
  /\ ~SysfsNameOpens(fs, ecall.idx)
  /\ ecall.before = "ams"
  /\ ecall.value = "ams"
  /\ ecall.ret = ENOENT

\* C18: between calls of read_sysfs_entry no FILE handle it opened is still
\* open.
C18_NoHandleHeld == handles = 0

\* C19: a row whose call succeeded and whose attribute file opens without
\* holding an integer gets no value line.
C19_MalformedSkipped ==
  (RowDone /\ Succeeded(hist[i].how) /\ rd.st = "malformed") =>
     \A k \in 1..Len(out) : out[k].row # i - 1

\* <prefix>_input with a prefix that is not empty
IsPrefixInput(n) ==
  /\ Len(n) > 6
  /\ SubSeq(n, Len(n) - 5, Len(n)) = << "_" >> \o s_input

\* C20: the name field of a row that has no explicit attribute is written
\* once: a step changes it only from empty, only as the successful label
\* resolution of that row, and to a name of the form <prefix>_input.
C20_CacheWriteOnce ==
  [][ \A b \in BoardSet, r \in 1..TableLen :
        BoardTable(b)[r].name = EmptyStr =>
           \/ tables'[b][r].name = tables[b][r].name
           \/ /\ tables[b][r].name = EmptyStr
              /\ pc = "chan" /\ b = board /\ r = i + 1
              /\ how' = "label"
              /\ IsPrefixInput(tables'[b][r].name) ]_vars

\* C21: print_power_utilization reports at most one rail table per
\* invocation, whatever the host name is.
C21_AtMostOneTable == Len(reports) <= 1

\* C22: a step of a get_pmbus_device_filename call on row i changes no
\* field of any row of any table other than the name field of row i.
C22_FrameOnlyOwnName ==
  [][ InCall =>
        \A b \in BoardSet, r \in 1..(TableLen + 1) :
           IF b = board /\ r = i + 1
           THEN [tables'[b][r] EXCEPT !.name = tables[b][r].name] = tables[b][r]
           ELSE tables'[b][r] = tables[b][r] ]_vars

\* a call has just written the name of its row; the other rows are as the
\* table defines them
C22_Witness ==
  /\ Returned
  /\ how = "label"
  /\ Cur.name # nameAtCall
  /\ \A r \in 1..(TableLen + 1) : r # i + 1 => table[r] = BoardTable(board)[r]

\* C23: when get_pmbus_device_filename returns, it holds no file or
\* directory stream open, on every exit path.
C23_NoStreamLeft == Returned => held = {}

\* C24: when the call succeeded and fopen of the resolved attribute file
\* returns NULL, print_pmbus_info goes on to the next row without a value
\* line for the rail.
C24_AbsentSkipped ==
  /\ pc = "crashed" => ~Succeeded(hist[i + 1].how)
  /\ (RowDone /\ Succeeded(hist[i].how) /\ rd.st = "absent") =>
        \A k \in 1..Len(out) : out[k].row # i - 1

\* C25: the value get_pmbus_device_filename returns is a hwmon index
\* (>= 0) exactly when filename holds a resolved attribute path under that
\* index, and -1 on every failure.
C25_ReturnTellsSuccess ==
  Returned =>
     IF Succeeded(how)
     THEN ret >= 0 /\ filename.k = "attr" /\ filename.id = ret
     ELSE ret = -1

\* C26: the instance index the call uses after the hwmon directory of the
\* address is the suffix of the hwmon<M> entry of that directory, in
\* whatever order readdir returns the entries.
C26_IndexFromHwmonEntry == pc = "chan" => hwmon_id = HwmonOf(fs, Cur.address)

\* C27: get_device_hwmon_id returns -1 only when no hwmon instance present
\* under /sys/class/hwmon has the name, contiguous indices or not.
C27_EveryInstanceExamined ==
  (ecall.fn = "get_device_hwmon_id" /\ ecall.ret = -1) =>
     \A k \in Indices :
        ~(SysfsNameOpens(fs, k) /\ HwmonName(fs, k) = ecall.name)

\* C28: a call that succeeds by label scan resolved the channel of a label
\* file whose own text is the descriptor's label: an empty label file
\* never matches.
C28_EmptyNeverMatches ==
  (Returned /\ how = "label") =>
     LET es == InstDirEntries(fs, ret)
     IN \E k \in 1..Len(es) :
           /\ RegName(es[k].name) = filename.name
           /\ es[k].text = Cur.label

====
